---- MODULE Spec2Model ----
(***************************************************************************)
(* Product Store Service: the HTTP route layer of service/routes.py over   *)
(* the Product active-record model (service/models.py) and the error       *)
(* handlers (service/common/error_handlers.py).                            *)
(*                                                                         *)
(* Texts that the code inspects character by character (prices, category   *)
(* labels, the `available` query text) are sequences of one-character      *)
(* strings; texts that are only compared for equality (names,              *)
(* descriptions, content types) are plain strings.                         *)
(***************************************************************************)
EXTENDS Integers, Sequences, FiniteSets, TLC

(***************************************************************************)
(* Bounds of the model.                                                    *)
(***************************************************************************)
\* the store generates the ids 1..MaxId; POST is not taken once they are used up
MaxId == 2

(***************************************************************************)
(* HTTP status codes (service/common/status.py, used by routes.py).        *)
(***************************************************************************)
HTTP_200_OK == 200
HTTP_201_CREATED == 201
HTTP_204_NO_CONTENT == 204
HTTP_400_BAD_REQUEST == 400
HTTP_404_NOT_FOUND == 404
HTTP_415_UNSUPPORTED_MEDIA_TYPE == 415

\* the media type the write endpoints require
JSON_TYPE == "application/json"

(***************************************************************************)
(* Characters and texts.                                                   *)
(***************************************************************************)
Digits == {"0", "1", "2", "3", "4", "5", "6", "7", "8", "9"}

DigitVal(c) ==
    CASE c = "0" -> 0 [] c = "1" -> 1 [] c = "2" -> 2 [] c = "3" -> 3
      [] c = "4" -> 4 [] c = "5" -> 5 [] c = "6" -> 6 [] c = "7" -> 7
      [] c = "8" -> 8 [] c = "9" -> 9

DigitChar(n) ==
    CASE n = 0 -> "0" [] n = 1 -> "1" [] n = 2 -> "2" [] n = 3 -> "3"
      [] n = 4 -> "4" [] n = 5 -> "5" [] n = 6 -> "6" [] n = 7 -> "7"
      [] n = 8 -> "8" [] n = 9 -> "9"

\* str.upper() on one character (the letters the model's texts use)
UpperChar(c) ==
    CASE c = "a" -> "A" [] c = "b" -> "B" [] c = "c" -> "C" [] c = "d" -> "D"
      [] c = "e" -> "E" [] c = "f" -> "F" [] c = "g" -> "G" [] c = "h" -> "H"
      [] c = "l" -> "L" [] c = "n" -> "N" [] c = "o" -> "O" [] c = "r" -> "R"
      [] c = "s" -> "S" [] c = "t" -> "T" [] c = "u" -> "U" [] c = "y" -> "Y"
      [] OTHER -> c

\* str.lower() on one character
LowerChar(c) ==
    CASE c = "A" -> "a" [] c = "B" -> "b" [] c = "C" -> "c" [] c = "D" -> "d"
      [] c = "E" -> "e" [] c = "F" -> "f" [] c = "G" -> "g" [] c = "H" -> "h"
      [] c = "L" -> "l" [] c = "N" -> "n" [] c = "O" -> "o" [] c = "R" -> "r"
      [] c = "S" -> "s" [] c = "T" -> "t" [] c = "U" -> "u" [] c = "Y" -> "y"
      [] OTHER -> c

Upper(s) == [i \in 1..Len(s) |-> UpperChar(s[i])]

Lower(s) == [i \in 1..Len(s) |-> LowerChar(s[i])]

(***************************************************************************)
(* Decimal: a coefficient and a number of fractional digits, so that       *)
(* 12.50 is (1250, 2) and 12.5 is (125, 1); they are equal as values.      *)
(***************************************************************************)
RECURSIVE Pow10(_)
Pow10(n) == IF n = 0 THEN 1 ELSE 10 * Pow10(n - 1)

RECURSIVE DigitsToNat(_)
DigitsToNat(ds) ==
    IF Len(ds) = 0 THEN 0
    ELSE 10 * DigitsToNat(SubSeq(ds, 1, Len(ds) - 1)) + DigitVal(ds[Len(ds)])

RECURSIVE NatToDigits(_)
NatToDigits(n) ==
    IF n < 10 THEN <<DigitChar(n)>>
    ELSE Append(NatToDigits(n \div 10), DigitChar(n % 10))

RECURSIVE PadZeros(_, _)
PadZeros(ds, width) ==
    IF Len(ds) >= width THEN ds ELSE PadZeros(<<"0">> \o ds, width)

\* can Decimal(text) be built: digits with at most one point, at least one digit
DecimalValid(text) ==
    LET dots == {i \in 1..Len(text) : text[i] = "."}
    IN  /\ \A i \in 1..Len(text) : text[i] \in Digits \cup {"."}
        /\ Cardinality(dots) <= 1
        /\ Len(text) > Cardinality(dots)

\* Decimal(text)
Decimal(text) ==
    LET dots == {i \in 1..Len(text) : text[i] = "."}
        ds == SelectSeq(text, LAMBDA c : c # ".")
    IN  [coef |-> DigitsToNat(ds),
         scale |-> IF dots = {} THEN 0 ELSE Len(text) - (CHOOSE i \in dots : TRUE)]

\* str(decimal)
DecimalStr(d) ==
    LET ds == PadZeros(NatToDigits(d.coef), d.scale + 1)
        n == Len(ds)
    IN  IF d.scale = 0 THEN ds
        ELSE SubSeq(ds, 1, n - d.scale) \o <<".">> \o SubSeq(ds, n - d.scale + 1, n)

\* decimal == decimal, by value
DecimalEq(a, b) == a.coef * Pow10(b.scale) = b.coef * Pow10(a.scale)

(***************************************************************************)
(* Category: a closed enumeration; a member has a label and an ordinal.    *)
(***************************************************************************)
CLOTHS == [name |-> <<"C", "L", "O", "T", "H", "S">>, value |-> 1]
FOOD == [name |-> <<"F", "O", "O", "D">>, value |-> 2]

Category == {CLOTHS, FOOD}

\* hasattr(Category, label)
HasCategory(label) == \E c \in Category : c.name = label

\* getattr(Category, label)
GetCategory(label) == CHOOSE c \in Category : c.name = label

(***************************************************************************)
(* JSON values.  A JSON object with the product keys is a record whose     *)
(* `keys` field says which keys are present; the value of an absent key    *)
(* is the fixed filler of JsonFill and is never read.                      *)
(***************************************************************************)
\* Python's None where an id is expected
None == -1

ProductKeys == {"id", "name", "description", "price", "available", "category"}

RequiredKeys == {"name", "description", "price", "available", "category"}

\* a JSON true/false
JBool(b) == [bool |-> TRUE, b |-> b, s |-> ""]

\* a JSON string where a boolean is expected
JStr(s) == [bool |-> FALSE, b |-> FALSE, s |-> s]

JsonFill ==
    [keys |-> {}, id |-> None, name |-> "", description |-> "", price |-> <<>>,
     available |-> JStr(""), category |-> <<>>]

\* del payload[k]
DelKey(data, k) ==
    [[data EXCEPT ![k] = JsonFill[k]] EXCEPT !.keys = data.keys \ {k}]

(***************************************************************************)
(* Product (service/models.py): the record and its persistence             *)
(* operations over the table `db`, a function from the stored ids to the   *)
(* rows, and the key sequence `nextId`.                                    *)
(***************************************************************************)
\* Product(): nothing set yet
NewProduct ==
    [id |-> None, name |-> "", description |-> "",
     price |-> [coef |-> 0, scale |-> 0], available |-> FALSE, category |-> CLOTHS]

\* Product.serialize()
serialize(product) ==
    [keys |-> ProductKeys,
     id |-> product.id,
     name |-> product.name,
     description |-> product.description,
     price |-> DecimalStr(product.price),
     available |-> JBool(product.available),
     category |-> product.category.name]

\* does Product.deserialize(data) raise DataValidationError
DeserializeFails(data) ==
    \/ ~(RequiredKeys \subseteq data.keys)
    \/ ~data.available.bool
    \/ ~HasCategory(data.category)
    \/ ~DecimalValid(data.price)

\* deserialize() that also takes the id of the payload
deserialize_TakesId(product, data) ==
    IF DeserializeFails(data) THEN [ok |-> FALSE, product |-> product]
    ELSE [ok |-> TRUE,
          product |-> [id |-> IF "id" \in data.keys THEN data.id ELSE product.id,
                       name |-> data.name,
                       description |-> data.description,
                       price |-> Decimal(data.price),
                       available |-> data.available.b,
                       category |-> GetCategory(data.category)]]

\* Product.deserialize(data): all fields or none; the id is not taken from data
deserialize(product, data) ==
    IF DeserializeFails(data) THEN [ok |-> FALSE, product |-> product]
    ELSE [ok |-> TRUE,
          product |-> [id |-> product.id,
                       name |-> data.name,
                       description |-> data.description,
                       price |-> Decimal(data.price),
                       available |-> data.available.b,
                       category |-> GetCategory(data.category)]]

\* Product.find(id): the row, or nothing
find(db, id) == IF id \in DOMAIN db THEN <<db[id]>> ELSE <<>>

\* Product.create(): the store generates the id
create(db, nextId, product) ==
    LET row == [product EXCEPT !.id = nextId]
    IN  [db |-> [i \in DOMAIN db \cup {nextId} |-> IF i = nextId THEN row ELSE db[i]],
         nextId |-> nextId + 1,
         product |-> row]

\* Product.update(): writes the fields to the row of product.id
update(db, product) ==
    [i \in DOMAIN db |-> IF i = product.id THEN product ELSE db[i]]

\* Product.delete(): removes the row of product.id
delete(db, product) ==
    [i \in DOMAIN db \ {product.id} |-> db[i]]

\* the rows of the table, in ascending id order
RECURSIVE Rows(_, _)
Rows(db, ids) ==
    IF ids = {} THEN <<>>
    ELSE LET i == CHOOSE m \in ids : \A k \in ids : m <= k
         IN  <<db[i]>> \o Rows(db, ids \ {i})

\* Product.all()
all(db) == Rows(db, DOMAIN db)

\* Product.find_by_name(name)
find_by_name(db, name) == SelectSeq(all(db), LAMBDA p : p.name = name)

\* Product.find_by_category(category)
find_by_category(db, category) == SelectSeq(all(db), LAMBDA p : p.category = category)

\* Product.find_by_availability(available)
find_by_availability(db, available) ==
    SelectSeq(all(db), LAMBDA p : p.available = available)

(***************************************************************************)
(* Requests and responses.                                                 *)
(***************************************************************************)
\* a query parameter or header that was not sent (request.args.get gives None)
Absent(filler) == [given |-> FALSE, v |-> filler]

\* a query parameter or header that was sent with the value v
Given(v) == [given |-> TRUE, v |-> v]

\* Python truthiness of request.args.get(...): sent and not empty
Truthy(arg, empty) == arg.given /\ arg.v # empty

NoArgs == [name |-> Absent(""), category |-> Absent(<<>>), available |-> Absent(<<>>)]

\* a request body: bytes that parse as a JSON object, or that do not parse
JsonBody(data) == [parses |-> TRUE, data |-> data]

BadBody == [parses |-> FALSE, data |-> JsonFill]

\* str(product_id)
IdText(id) == NatToDigits(id)

\* a response: status, body (a JSON object, a JSON array, an error message
\* or nothing) and the Location header
Response(status, kind, items, message, location) ==
    [status |-> status, kind |-> kind, items |-> items, message |-> message,
     location |-> location]

\* jsonify(product.serialize()), status
ObjectResponse(status, data, location) == Response(status, "object", <<data>>, <<>>, location)

\* jsonify(results), status
ArrayResponse(status, items) == Response(status, "array", items, <<>>, None)

\* "", status
EmptyResponse(status) == Response(status, "empty", <<>>, <<>>, None)

\* abort(status, message), answered by the error handlers with a JSON message
ErrorResponse(status, message) == Response(status, "error", <<>>, message, None)

\* no response yet
NoResponse == Response(0, "none", <<>>, <<>>, None)

\* what a handler leaves behind: the table, the key sequence, the response and
\* the model operations it called, in order
Outcome(db, nextId, resp, calls) ==
    [db |-> db, nextId |-> nextId, resp |-> resp, calls |-> calls]

(***************************************************************************)
(* service/routes.py                                                       *)
(***************************************************************************)
\* healthcheck()
healthcheck(db, nextId) ==
    Outcome(db, nextId,
            Response(HTTP_200_OK, "health", <<>>, <<"OK">>, None), <<>>)

\* check_content_type(content_type): TRUE when it aborts with 415
check_content_type(ct, content_type) ==
    \/ ~ct.given
    \/ ct.v # content_type

UnsupportedMediaType(content_type) ==
    ErrorResponse(HTTP_415_UNSUPPORTED_MEDIA_TYPE, <<"Content-Type must be ", content_type>>)

NotFound(product_id) ==
    ErrorResponse(HTTP_404_NOT_FOUND,
                  <<"Product with id '">> \o IdText(product_id)
                      \o <<"' ", "was not found", ".">>)

\* the 400 of a body that is not JSON (request.get_json()) or that
\* deserialize() rejects (DataValidationError)
BadRequest(message) == ErrorResponse(HTTP_400_BAD_REQUEST, message)

\* create_products() that answers without calling create()
create_products_NoCreate(db, nextId, ct, body) ==
    IF check_content_type(ct, JSON_TYPE)
    THEN Outcome(db, nextId, UnsupportedMediaType(JSON_TYPE), <<"check_content_type">>)
    ELSE IF ~body.parses
    THEN Outcome(db, nextId, BadRequest(<<"Bad Request">>),
                 <<"check_content_type", "get_json">>)
    ELSE LET d == deserialize(NewProduct, body.data)
         IN  IF ~d.ok
             THEN Outcome(db, nextId, BadRequest(<<"Invalid product">>),
                          <<"check_content_type", "get_json", "deserialize">>)
             ELSE Outcome(db, nextId,
                          ObjectResponse(HTTP_201_CREATED, serialize(d.product), d.product.id),
                          <<"check_content_type", "get_json", "deserialize", "serialize">>)

\* create_products() that checks the content type after deserializing
create_products_DeserializeFirst(db, nextId, ct, body) ==
    IF ~body.parses
    THEN Outcome(db, nextId, BadRequest(<<"Bad Request">>), <<"get_json">>)
    ELSE LET d == deserialize(NewProduct, body.data)
             c == create(db, nextId, d.product)
         IN  IF ~d.ok
             THEN Outcome(db, nextId, BadRequest(<<"Invalid product">>),
                          <<"get_json", "deserialize">>)
             ELSE IF check_content_type(ct, JSON_TYPE)
             THEN Outcome(db, nextId, UnsupportedMediaType(JSON_TYPE),
                          <<"get_json", "deserialize", "check_content_type">>)
             ELSE Outcome(c.db, c.nextId,
                          ObjectResponse(HTTP_201_CREATED, serialize(c.product), c.product.id),
                          <<"get_json", "deserialize", "check_content_type", "create",
                            "serialize">>)

\* create_products() that stores the new product before it deserializes the body
create_products_CreateFirst(db, nextId, ct, body) ==
    IF check_content_type(ct, JSON_TYPE)
    THEN Outcome(db, nextId, UnsupportedMediaType(JSON_TYPE), <<"check_content_type">>)
    ELSE IF ~body.parses
    THEN Outcome(db, nextId, BadRequest(<<"Bad Request">>),
                 <<"check_content_type", "get_json">>)
    ELSE LET c == create(db, nextId, NewProduct)
             d == deserialize(c.product, body.data)
         IN  IF ~d.ok
             THEN Outcome(c.db, c.nextId, BadRequest(<<"Invalid product">>),
                          <<"check_content_type", "get_json", "create", "deserialize">>)
             ELSE Outcome(update(c.db, d.product), c.nextId,
                          ObjectResponse(HTTP_201_CREATED, serialize(d.product), d.product.id),
                          <<"check_content_type", "get_json", "create", "deserialize",
                            "update", "serialize">>)

\* create_products()
create_products(db, nextId, ct, body) ==
    IF check_content_type(ct, JSON_TYPE)
    THEN Outcome(db, nextId, UnsupportedMediaType(JSON_TYPE), <<"check_content_type">>)
    ELSE IF ~body.parses
    THEN Outcome(db, nextId, BadRequest(<<"Bad Request">>),
                 <<"check_content_type", "get_json">>)
    ELSE LET d == deserialize(NewProduct, body.data)
             c == create(db, nextId, d.product)
         IN  IF ~d.ok
             THEN Outcome(db, nextId, BadRequest(<<"Invalid product">>),
                          <<"check_content_type", "get_json", "deserialize">>)
             ELSE Outcome(c.db, c.nextId,
                          ObjectResponse(HTTP_201_CREATED, serialize(c.product), c.product.id),
                          <<"check_content_type", "get_json", "deserialize", "create",
                            "serialize">>)

\* get_product() that answers 200 with an empty product when nothing is found
get_product_NoAbort(db, nextId, product_id) ==
    LET product == find(db, product_id)
    IN  Outcome(db, nextId,
                ObjectResponse(HTTP_200_OK,
                    serialize(IF product = <<>> THEN NewProduct ELSE product[1]), None),
                <<"find", "serialize">>)

\* get_product(product_id)
get_product(db, nextId, product_id) ==
    LET product == find(db, product_id)
    IN  IF product = <<>>
        THEN Outcome(db, nextId, NotFound(product_id), <<"find">>)
        ELSE Outcome(db, nextId,
                     ObjectResponse(HTTP_200_OK, serialize(product[1]), None),
                     <<"find", "serialize">>)

\* update_products() that looks the product up before checking the content type
update_products_FindFirst(db, nextId, product_id, ct, body) ==
    LET product == find(db, product_id)
    IN  IF product = <<>>
        THEN Outcome(db, nextId, NotFound(product_id), <<"find">>)
        ELSE IF check_content_type(ct, JSON_TYPE)
        THEN Outcome(db, nextId, UnsupportedMediaType(JSON_TYPE), <<"find", "check_content_type">>)
        ELSE IF ~body.parses
        THEN Outcome(db, nextId, BadRequest(<<"Bad Request">>),
                     <<"find", "check_content_type", "get_json">>)
        ELSE LET d == deserialize(product[1], body.data)
                 updated == [d.product EXCEPT !.id = product_id]
             IN  IF ~d.ok
                 THEN Outcome(db, nextId, BadRequest(<<"Invalid product">>),
                              <<"find", "check_content_type", "get_json", "deserialize">>)
                 ELSE Outcome(update(db, updated), nextId,
                              ObjectResponse(HTTP_200_OK, serialize(updated), None),
                              <<"find", "check_content_type", "get_json", "deserialize",
                                "update", "serialize">>)

\* update_products() that saves the description of a payload it rejects
update_products_SavesOnError(db, nextId, product_id, ct, body) ==
    LET product == find(db, product_id)
    IN  IF check_content_type(ct, JSON_TYPE)
        THEN Outcome(db, nextId, UnsupportedMediaType(JSON_TYPE), <<"check_content_type">>)
        ELSE IF product = <<>>
        THEN Outcome(db, nextId, NotFound(product_id), <<"check_content_type", "find">>)
        ELSE IF ~body.parses
        THEN Outcome(db, nextId, BadRequest(<<"Bad Request">>),
                     <<"check_content_type", "find", "get_json">>)
        ELSE LET d == deserialize(product[1], body.data)
                 updated == [d.product EXCEPT !.id = product_id]
                 partial == [product[1] EXCEPT !.description = body.data.description]
             IN  IF ~d.ok
                 THEN Outcome(update(db, partial), nextId, BadRequest(<<"Invalid product">>),
                              <<"check_content_type", "find", "get_json", "deserialize",
                                "update">>)
                 ELSE Outcome(update(db, updated), nextId,
                              ObjectResponse(HTTP_200_OK, serialize(updated), None),
                              <<"check_content_type", "find", "get_json", "deserialize",
                                "update", "serialize">>)

\* update_products(product_id)
update_products(db, nextId, product_id, ct, body) ==
    LET product == find(db, product_id)
    IN  IF check_content_type(ct, JSON_TYPE)
        THEN Outcome(db, nextId, UnsupportedMediaType(JSON_TYPE), <<"check_content_type">>)
        ELSE IF product = <<>>
        THEN Outcome(db, nextId, NotFound(product_id), <<"check_content_type", "find">>)
        ELSE IF ~body.parses
        THEN Outcome(db, nextId, BadRequest(<<"Bad Request">>),
                     <<"check_content_type", "find", "get_json">>)
        ELSE LET d == deserialize(product[1], body.data)
                 updated == [d.product EXCEPT !.id = product_id]
             IN  IF ~d.ok
                 THEN Outcome(db, nextId, BadRequest(<<"Invalid product">>),
                              <<"check_content_type", "find", "get_json", "deserialize">>)
                 ELSE Outcome(update(db, updated), nextId,
                              ObjectResponse(HTTP_200_OK, serialize(updated), None),
                              <<"check_content_type", "find", "get_json", "deserialize",
                                "update", "serialize">>)

\* delete_products() that answers 404 when nothing is found
delete_products_NotFound(db, nextId, product_id) ==
    LET product == find(db, product_id)
    IN  IF product # <<>>
        THEN Outcome(delete(db, product[1]), nextId,
                     EmptyResponse(HTTP_204_NO_CONTENT), <<"find", "delete">>)
        ELSE Outcome(db, nextId, NotFound(product_id), <<"find">>)

\* delete_products(product_id)
delete_products(db, nextId, product_id) ==
    LET product == find(db, product_id)
    IN  IF product # <<>>
        THEN Outcome(delete(db, product[1]), nextId,
                     EmptyResponse(HTTP_204_NO_CONTENT), <<"find", "delete">>)
        ELSE Outcome(db, nextId, EmptyResponse(HTTP_204_NO_CONTENT), <<"find">>)

\* [product.serialize() for product in products]
SerializeAll(products) == [i \in 1..Len(products) |-> serialize(products[i])]

\* available in ["true", "yes", "1"], without lower()
AvailableValue_NoLower(available) ==
    available \in {<<"t", "r", "u", "e">>, <<"y", "e", "s">>, <<"1">>}

\* available.lower() in ["true", "yes", "1"]
AvailableValue(available) ==
    Lower(available) \in {<<"t", "r", "u", "e">>, <<"y", "e", "s">>, <<"1">>}

\* list_products() that looks at category before name
list_products_CategoryFirst(db, nextId, args) ==
    IF Truthy(args.category, <<>>)
    THEN IF HasCategory(Upper(args.category.v))
         THEN Outcome(db, nextId,
                      ArrayResponse(HTTP_200_OK,
                          SerializeAll(find_by_category(db,
                              GetCategory(Upper(args.category.v))))),
                      <<"find_by_category">>)
         ELSE Outcome(db, nextId,
                      BadRequest(<<"Invalid category: ">> \o args.category.v), <<>>)
    ELSE IF Truthy(args.name, "")
    THEN Outcome(db, nextId,
                 ArrayResponse(HTTP_200_OK, SerializeAll(find_by_name(db, args.name.v))),
                 <<"find_by_name">>)
    ELSE IF Truthy(args.available, <<>>)
    THEN Outcome(db, nextId,
                 ArrayResponse(HTTP_200_OK,
                     SerializeAll(find_by_availability(db,
                         AvailableValue(args.available.v)))),
                 <<"find_by_availability">>)
    ELSE Outcome(db, nextId, ArrayResponse(HTTP_200_OK, SerializeAll(all(db))), <<"all">>)

\* list_products() that answers an unknown category with an empty list
list_products_EmptyOnUnknown(db, nextId, args) ==
    IF Truthy(args.name, "")
    THEN Outcome(db, nextId,
                 ArrayResponse(HTTP_200_OK, SerializeAll(find_by_name(db, args.name.v))),
                 <<"find_by_name">>)
    ELSE IF Truthy(args.category, <<>>)
    THEN IF HasCategory(Upper(args.category.v))
         THEN Outcome(db, nextId,
                      ArrayResponse(HTTP_200_OK,
                          SerializeAll(find_by_category(db,
                              GetCategory(Upper(args.category.v))))),
                      <<"find_by_category">>)
         ELSE Outcome(db, nextId, ArrayResponse(HTTP_200_OK, <<>>), <<>>)
    ELSE IF Truthy(args.available, <<>>)
    THEN Outcome(db, nextId,
                 ArrayResponse(HTTP_200_OK,
                     SerializeAll(find_by_availability(db,
                         AvailableValue(args.available.v)))),
                 <<"find_by_availability">>)
    ELSE Outcome(db, nextId, ArrayResponse(HTTP_200_OK, SerializeAll(all(db))), <<"all">>)

\* list_products()
list_products(db, nextId, args) ==
    IF Truthy(args.name, "")
    THEN Outcome(db, nextId,
                 ArrayResponse(HTTP_200_OK, SerializeAll(find_by_name(db, args.name.v))),
                 <<"find_by_name">>)
    ELSE IF Truthy(args.category, <<>>)
    THEN IF HasCategory(Upper(args.category.v))
         THEN Outcome(db, nextId,
                      ArrayResponse(HTTP_200_OK,
                          SerializeAll(find_by_category(db,
                              GetCategory(Upper(args.category.v))))),
                      <<"find_by_category">>)
         ELSE Outcome(db, nextId,
                      BadRequest(<<"Invalid category: ">> \o args.category.v), <<>>)
    ELSE IF Truthy(args.available, <<>>)
    THEN Outcome(db, nextId,
                 ArrayResponse(HTTP_200_OK,
                     SerializeAll(find_by_availability(db,
                         AvailableValue(args.available.v)))),
                 <<"find_by_availability">>)
    ELSE Outcome(db, nextId, ArrayResponse(HTTP_200_OK, SerializeAll(all(db))), <<"all">>)

(***************************************************************************)
(* The inputs of the model.                                                *)
(***************************************************************************)
Names == {"Fedora", "Hat"}

Descriptions == {"A red hat", "A blue hat"}

PriceTexts == {<<"1", "2", ".", "5", "0">>, <<"5">>}

CategoryLabels == {c.name : c \in Category}

\* every payload with the five required keys and well-formed values
Payloads ==
    [keys : {RequiredKeys}, id : {None}, name : Names, description : Descriptions,
     price : PriceTexts, available : {JBool(TRUE), JBool(FALSE)},
     category : CategoryLabels]

\* the payload of the create scenario
Fedora ==
    [keys |-> RequiredKeys, id |-> None, name |-> "Fedora", description |-> "A red hat",
     price |-> <<"1", "2", ".", "5", "0">>, available |-> JBool(TRUE),
     category |-> CLOTHS.name]

\* the valid payloads sent: Fedora and the payloads one field away from it
ValidPayloads ==
    {p \in Payloads : Cardinality({k \in RequiredKeys : p[k] # Fedora[k]}) <= 1}

\* a payload that also carries an id, as product.serialize() does
WithId(p, id) == [p EXCEPT !.keys = ProductKeys, !.id = id]

\* the invalid payloads sent: a required key missing, only the name present,
\* `available` a string, an unknown category, a price that is no number
InvalidPayloads ==
    {DelKey(Fedora, k) : k \in RequiredKeys}
        \cup {[JsonFill EXCEPT !.keys = {"name"}, !.name = "Test"],
              [Fedora EXCEPT !.available = JStr("yes")],
              [Fedora EXCEPT !.category = <<"B", "O", "G", "U", "S">>],
              [Fedora EXCEPT !.price = <<"a", "b", "c">>]}

Bodies ==
    {JsonBody(p) : p \in ValidPayloads \cup {WithId(q, MaxId) : q \in ValidPayloads}
                         \cup InvalidPayloads}
        \cup {BadBody}

ContentTypes == {Absent(""), Given("plain/text"), Given(JSON_TYPE)}

\* the ids of the paths: 0 is never stored
PathIds == 0..MaxId

NameArgs == {Absent(""), Given(""), Given("Fedora"), Given("Hat")}

CategoryArgs ==
    {Absent(<<>>), Given(<<>>), Given(<<"f", "o", "o", "d">>),
     Given(<<"C", "l", "o", "t", "h", "s">>), Given(<<"b", "o", "g", "u", "s">>)}

AvailableArgs ==
    {Absent(<<>>), Given(<<>>), Given(<<"t", "r", "u", "e">>), Given(<<"Y", "e", "s">>),
     Given(<<"1">>), Given(<<"f", "a", "l", "s", "e">>), Given(<<"0">>)}

ListArgs == [name : NameArgs, category : CategoryArgs, available : AvailableArgs]

(***************************************************************************)
(* The service: one request at a time, from the empty table.               *)
(***************************************************************************)
VARIABLES db, nextId, req, resp, calls

vars == <<db, nextId, req, resp, calls>>

Request(op, id, ct, body, args) ==
    [op |-> op, id |-> id, ct |-> ct, body |-> body, args |-> args]

\* no request is being handled
NoRequest == Request("none", None, Absent(""), BadBody, NoArgs)

Init ==
    /\ db = <<>>
    /\ nextId = 1
    /\ req = NoRequest
    /\ resp = NoResponse
    /\ calls = <<>>

\* the handler's outcome becomes the state; the request is kept beside it
Respond(request, outcome) ==
    /\ outcome.nextId <= MaxId + 1
    /\ req' = request
    /\ db' = outcome.db
    /\ nextId' = outcome.nextId
    /\ resp' = outcome.resp
    /\ calls' = outcome.calls

Health ==
    /\ req = NoRequest
    /\ Respond(Request("HEALTH", None, Absent(""), BadBody, NoArgs), healthcheck(db, nextId))

PostProducts ==
    /\ req = NoRequest
    /\ \E ct \in ContentTypes, body \in Bodies :
           Respond(Request("POST", None, ct, body, NoArgs),
                   create_products(db, nextId, ct, body))

GetProduct ==
    /\ req = NoRequest
    /\ \E id \in PathIds :
           Respond(Request("GET", id, Absent(""), BadBody, NoArgs),
                   get_product(db, nextId, id))

PutProducts ==
    /\ req = NoRequest
    /\ \E id \in PathIds, ct \in ContentTypes, body \in Bodies :
           Respond(Request("PUT", id, ct, body, NoArgs),
                   update_products(db, nextId, id, ct, body))

DeleteProducts ==
    /\ req = NoRequest
    /\ \E id \in PathIds :
           Respond(Request("DELETE", id, Absent(""), BadBody, NoArgs),
                   delete_products(db, nextId, id))

ListProducts ==
    /\ req = NoRequest
    /\ \E args \in ListArgs :
           Respond(Request("LIST", None, Absent(""), BadBody, args),
                   list_products(db, nextId, args))

\* the response is sent and the request context is torn down
Teardown ==
    /\ req # NoRequest
    /\ req' = NoRequest
    /\ resp' = NoResponse
    /\ calls' = <<>>
    /\ UNCHANGED <<db, nextId>>

Next ==
    \/ Health
    \/ PostProducts
    \/ GetProduct
    \/ PutProducts
    \/ DeleteProducts
    \/ ListProducts
    \/ Teardown

Spec == Init /\ [][Next]_vars

(***************************************************************************)
(* Round trips: from a table that holds one product of a wider range of    *)
(* field values, a client posts what serialize() gave it, as the route     *)
(* tests do with product.serialize().                                      *)
(***************************************************************************)
RoundTripPrices == [coef : {0, 5, 50, 1250, 1999}, scale : 0..2]

RoundTripProducts ==
    [id : {1}, name : Names, description : Descriptions, price : RoundTripPrices,
     available : BOOLEAN, category : Category]

InitRoundTrip ==
    /\ \E p \in RoundTripProducts : db = <<p>>
    /\ nextId = 2
    /\ req = NoRequest
    /\ resp = NoResponse
    /\ calls = <<>>

\* client.post(BASE_URL, json=product.serialize())
PostSerialized ==
    /\ req = NoRequest
    /\ \E i \in DOMAIN db :
           Respond(Request("POST", None, Given(JSON_TYPE), JsonBody(serialize(db[i])), NoArgs),
                   create_products(db, nextId, Given(JSON_TYPE), JsonBody(serialize(db[i]))))

NextRoundTrip ==
    \/ PostSerialized
    \/ Teardown

SpecRoundTrip == InitRoundTrip /\ [][NextRoundTrip]_vars

(***************************************************************************)
(* Vocabulary of the properties.                                           *)
(***************************************************************************)
\* the request handled last was sent with Content-Type: application/json
JsonContentType(r) == r.ct.given /\ r.ct.v = JSON_TYPE

\* a payload with every required key, a boolean `available`, a declared
\* category label and a price that is a number
ValidPayload(data) ==
    /\ RequiredKeys \subseteq data.keys
    /\ data.available.bool
    /\ data.category \in CategoryLabels
    /\ DecimalValid(data.price)

\* a payload that lacks a required key or whose `available` is no boolean
MissingKeyOrNotBool(data) ==
    \/ \E k \in RequiredKeys : k \notin data.keys
    \/ ("available" \in data.keys /\ ~data.available.bool)

\* the product a valid payload describes, stored under id
ProductOf(data, id) ==
    [id |-> id, name |-> data.name, description |-> data.description,
     price |-> Decimal(data.price), available |-> data.available.b,
     category |-> CHOOSE c \in Category : c.name = data.category]

\* the elements of a JSON array
Items(r) == {r.items[i] : i \in 1..Len(r.items)}

\* the response is 200 with exactly the serialized rows of `rows`, each once
ListsExactly(r, rows) ==
    /\ r.status = HTTP_200_OK
    /\ r.kind = "array"
    /\ Items(r) = {serialize(p) : p \in rows}
    /\ Len(r.items) = Cardinality(rows)

StoredRows(table) == {table[i] : i \in DOMAIN table}

\* text occurs in the message as consecutive pieces
Mentions(message, text) ==
    \E i \in 1..Len(message) :
        /\ i + Len(text) - 1 <= Len(message)
        /\ SubSeq(message, i, i + Len(text) - 1) = text

\* every row is stored under its own id
IdsConsistent(table) == \A i \in DOMAIN table : table[i].id = i

(***************************************************************************)
(* C1: a POST of a valid payload with Content-Type application/json        *)
(* answers 201, adds exactly one product under the id the store            *)
(* generated, returns that id with the payload's field values, and a GET   *)
(* of that id then answers 200 with the same field values.                 *)
(***************************************************************************)
C1_Step ==
    (/\ req'.op = "POST"
     /\ JsonContentType(req')
     /\ req'.body.parses
     /\ ValidPayload(req'.body.data))
    => /\ resp'.status = HTTP_201_CREATED
       /\ resp'.kind = "object"
       /\ Len(resp'.items) = 1
       /\ LET data == req'.body.data
              out == resp'.items[1]
              got == get_product(db', nextId', out.id).resp
          IN  /\ out.id = nextId
              /\ out.id \notin DOMAIN db
              /\ DOMAIN db' = DOMAIN db \cup {out.id}
              /\ \A i \in DOMAIN db : db'[i] = db[i]
              /\ resp'.location = out.id
              /\ out.name = data.name
              /\ out.description = data.description
              /\ DecimalValid(out.price)
              /\ DecimalEq(Decimal(out.price), Decimal(data.price))
              /\ out.available = data.available
              /\ out.category = data.category
              /\ got.status = HTTP_200_OK
              /\ got.items = <<out>>

C1_CreateThenGet == [][C1_Step]_vars

\* a 201 whose payload carried another id than the one generated
C1_Witness ==
    /\ req.op = "POST"
    /\ resp.status = HTTP_201_CREATED
    /\ "id" \in req.body.data.keys
    /\ resp.items[1].id # req.body.data.id

(***************************************************************************)
(* C2: DELETE answers 204 whether or not the id is stored; afterwards no   *)
(* product has that id, the other products are unchanged, a GET of the id  *)
(* answers 404, and a repeated DELETE gives the same answer and store.     *)
(***************************************************************************)
C2_Step ==
    (req'.op = "DELETE")
    => LET id == req'.id
           again == delete_products(db', nextId', id)
       IN  /\ resp'.status = HTTP_204_NO_CONTENT
           /\ resp'.kind = "empty"
           /\ id \notin DOMAIN db'
           /\ DOMAIN db' = DOMAIN db \ {id}
           /\ \A i \in DOMAIN db' : db'[i] = db[i]
           /\ get_product(db', nextId', id).resp.status = HTTP_404_NOT_FOUND
           /\ again.resp = resp'
           /\ again.db = db'
           /\ again.nextId = nextId'

C2_DeleteIdempotent == [][C2_Step]_vars

\* a DELETE of an id that was stored once and is stored no more
C2_Witness ==
    /\ req.op = "DELETE"
    /\ resp.status = HTTP_204_NO_CONTENT
    /\ req.id \in 1..(nextId - 1)
    /\ calls = <<"find">>
    /\ db # <<>>

(***************************************************************************)
(* C3 as stated: PUT answers 415 on a missing or wrong Content-Type, else  *)
(* 404 on an id not stored, else 200 with the product serialized under the *)
(* id of the path; it never changes an id or the number of products.       *)
(***************************************************************************)
C3_OriginalStep ==
    (req'.op = "PUT")
    => /\ DOMAIN db' = DOMAIN db
       /\ IdsConsistent(db')
       /\ IF ~JsonContentType(req') THEN resp'.status = HTTP_415_UNSUPPORTED_MEDIA_TYPE
          ELSE IF req'.id \notin DOMAIN db THEN resp'.status = HTTP_404_NOT_FOUND
          ELSE /\ resp'.status = HTTP_200_OK
               /\ resp'.items = <<serialize(db'[req'.id])>>

C3_Original == [][C3_OriginalStep]_vars

(***************************************************************************)
(* C3 amended: PUT answers 415 on a missing or wrong Content-Type, else    *)
(* 404 on an id not stored, else 400 with the store unchanged when the     *)
(* body is no JSON or fails validation, else 200 with the product          *)
(* deserialized from the body, stored and serialized under the id of the   *)
(* path; it never changes an id or the number of products.                 *)
(***************************************************************************)
C3_Step ==
    (req'.op = "PUT")
    => LET id == req'.id
           body == req'.body
       IN  /\ DOMAIN db' = DOMAIN db
           /\ IdsConsistent(db')
           /\ nextId' = nextId
           /\ IF ~JsonContentType(req')
              THEN resp'.status = HTTP_415_UNSUPPORTED_MEDIA_TYPE /\ db' = db
              ELSE IF id \notin DOMAIN db
              THEN resp'.status = HTTP_404_NOT_FOUND /\ db' = db
              ELSE IF ~(body.parses /\ ValidPayload(body.data))
              THEN resp'.status = HTTP_400_BAD_REQUEST /\ db' = db
              ELSE /\ resp'.status = HTTP_200_OK
                   /\ db'[id] = ProductOf(body.data, id)
                   /\ \A i \in DOMAIN db \ {id} : db'[i] = db[i]
                   /\ resp'.items = <<serialize(db'[id])>>

C3_PutOrder == [][C3_Step]_vars

\* a 200 whose body carried the id of another stored product
C3_Witness ==
    /\ req.op = "PUT"
    /\ resp.status = HTTP_200_OK
    /\ "id" \in req.body.data.keys
    /\ req.body.data.id # req.id
    /\ req.body.data.id \in DOMAIN db

(***************************************************************************)
(* C4: GET /products/{id} answers 200 with the serialized product exactly  *)
(* when the id is stored, and otherwise 404 with a message that contains   *)
(* "was not found" and names the id.                                       *)
(***************************************************************************)
C4_Step ==
    (req'.op = "GET")
    => LET id == req'.id
       IN  IF id \in DOMAIN db
           THEN /\ resp'.status = HTTP_200_OK
                /\ resp'.kind = "object"
                /\ resp'.items = <<serialize(db[id])>>
                /\ resp'.items[1].id = id
           ELSE /\ resp'.status = HTTP_404_NOT_FOUND
                /\ resp'.kind = "error"
                /\ Mentions(resp'.message, <<"was not found">>)
                /\ Mentions(resp'.message, NatToDigits(id))

C4_GetFoundOrNot == [][C4_Step]_vars

\* a 404 for an id that was stored once, beside a product that still is
C4_Witness ==
    /\ req.op = "GET"
    /\ resp.status = HTTP_404_NOT_FOUND
    /\ req.id \in 1..(nextId - 1)
    /\ db # <<>>

(***************************************************************************)
(* C5: a POST without Content-Type, or with one that is not                *)
(* application/json, answers 415 whatever the body is; the body is not     *)
(* read or deserialized and create() is not called.                        *)
(***************************************************************************)
C5_PostUnsupportedMediaType ==
    (req.op = "POST" /\ ~JsonContentType(req))
    => /\ resp.status = HTTP_415_UNSUPPORTED_MEDIA_TYPE
       /\ resp.kind = "error"
       /\ \A i \in 1..Len(calls) : calls[i] \notin {"get_json", "deserialize", "create"}

\* a 415 for a body that would have been accepted
C5_Witness ==
    /\ req.op = "POST"
    /\ req.ct = Given("plain/text")
    /\ req.body.parses
    /\ ValidPayload(req.body.data)
    /\ resp.status = HTTP_415_UNSUPPORTED_MEDIA_TYPE

(***************************************************************************)
(* The filters of GET /products, as the statements about them read them.   *)
(***************************************************************************)
\* the texts that mean true
TrueTexts == {<<"t", "r", "u", "e">>, <<"y", "e", "s">>, <<"1">>}

RowsNamed(table, name) == {p \in StoredRows(table) : p.name = name}

\* the rows whose category label is the text, compared without case
RowsOfCategory(table, text) == {p \in StoredRows(table) : p.category.name = Upper(text)}

RowsAvailable(table, text) ==
    {p \in StoredRows(table) : p.available = (Lower(text) \in TrueTexts)}

\* the text is the label of a declared Category member, compared without case
IsLabel(text) == Upper(text) \in CategoryLabels

(***************************************************************************)
(* C6 as stated: GET /products answers 200 with a JSON array filtered by   *)
(* the first parameter given in the order name, category, available, and   *)
(* with every product when none is given.                                  *)
(***************************************************************************)
C6_OriginalStep ==
    (req'.op = "LIST")
    => LET a == req'.args
       IN  ListsExactly(resp',
               IF a.name.given THEN RowsNamed(db, a.name.v)
               ELSE IF a.category.given THEN RowsOfCategory(db, a.category.v)
               ELSE IF a.available.given THEN RowsAvailable(db, a.available.v)
               ELSE StoredRows(db))

C6_Original == [][C6_OriginalStep]_vars

(***************************************************************************)
(* C6 amended: a parameter counts as given when it is sent with a          *)
(* non-empty value.  GET /products filters by the first parameter given    *)
(* in the order name, category, available; the later ones are not          *)
(* consulted; with none given it returns every product.  The answer is     *)
(* 200 with a JSON array, except 400 when category is the filter chosen    *)
(* and its value is no label of a Category member.                         *)
(***************************************************************************)
C6_Step ==
    (req'.op = "LIST")
    => LET a == req'.args
       IN  IF Truthy(a.name, "") THEN ListsExactly(resp', RowsNamed(db, a.name.v))
           ELSE IF Truthy(a.category, <<>>)
           THEN IF IsLabel(a.category.v)
                THEN ListsExactly(resp', RowsOfCategory(db, a.category.v))
                ELSE resp'.status = HTTP_400_BAD_REQUEST
           ELSE IF Truthy(a.available, <<>>)
           THEN ListsExactly(resp', RowsAvailable(db, a.available.v))
           ELSE ListsExactly(resp', StoredRows(db))

C6_ListPrecedence == [][C6_Step]_vars

\* all three parameters given, and the name's rows are neither the
\* category's nor the availability's
C6_Witness ==
    /\ req.op = "LIST"
    /\ Truthy(req.args.name, "")
    /\ Truthy(req.args.category, <<>>)
    /\ Truthy(req.args.available, <<>>)
    /\ IsLabel(req.args.category.v)
    /\ resp.status = HTTP_200_OK
    /\ Len(resp.items) = 1
    /\ RowsOfCategory(db, req.args.category.v) # RowsNamed(db, req.args.name.v)
    /\ RowsAvailable(db, req.args.available.v) # RowsNamed(db, req.args.name.v)

(***************************************************************************)
(* C7 as stated: GET /products with a category value that is no label of   *)
(* a Category member answers 400, whatever the other parameters are.       *)
(***************************************************************************)
C7_Original ==
    (req.op = "LIST" /\ Truthy(req.args.category, <<>>) /\ ~IsLabel(req.args.category.v))
    => resp.status = HTTP_400_BAD_REQUEST

(***************************************************************************)
(* C7 amended: GET /products with no name or an empty name, and with a     *)
(* non-empty category value that is no label of a Category member,         *)
(* answers 400, whatever the available parameter is.                       *)
(***************************************************************************)
C7_InvalidCategory ==
    (/\ req.op = "LIST"
     /\ ~Truthy(req.args.name, "")
     /\ Truthy(req.args.category, <<>>)
     /\ ~IsLabel(req.args.category.v))
    => /\ resp.status = HTTP_400_BAD_REQUEST
       /\ resp.kind = "error"

\* a 400 with an empty name and an availability beside the unknown category
C7_Witness ==
    /\ req.op = "LIST"
    /\ req.args.name = Given("")
    /\ Truthy(req.args.category, <<>>)
    /\ ~IsLabel(req.args.category.v)
    /\ Truthy(req.args.available, <<>>)
    /\ resp.status = HTTP_400_BAD_REQUEST
    /\ db # <<>>

(***************************************************************************)
(* C8: a payload that lacks a required key or whose `available` is no      *)
(* boolean is answered with 400 and deserializing it changes nothing: a    *)
(* POST creates no product and a PUT leaves the stored product as it was.  *)
(***************************************************************************)
C8_Step ==
    (/\ req'.op \in {"POST", "PUT"}
     /\ JsonContentType(req')
     /\ req'.op = "PUT" => req'.id \in DOMAIN db
     /\ req'.body.parses
     /\ MissingKeyOrNotBool(req'.body.data))
    => LET target == IF req'.op = "PUT" THEN db[req'.id] ELSE NewProduct
           d == deserialize(target, req'.body.data)
       IN  /\ ~d.ok
           /\ d.product = target
           /\ resp'.status = HTTP_400_BAD_REQUEST
           /\ resp'.kind = "error"
           /\ db' = db
           /\ nextId' = nextId

C8_InvalidPayload == [][C8_Step]_vars

\* a PUT of a payload without its name on a stored product
C8_Witness ==
    /\ req.op = "PUT"
    /\ JsonContentType(req)
    /\ req.id \in DOMAIN db
    /\ req.body.parses
    /\ "name" \notin req.body.data.keys
    /\ "price" \in req.body.data.keys
    /\ resp.status = HTTP_400_BAD_REQUEST

(***************************************************************************)
(* C10: filtered by available alone, GET /products reads the text as true  *)
(* exactly when its lower-cased form is "true", "yes" or "1", and returns  *)
(* exactly the stored products with that availability.                     *)
(***************************************************************************)
C10_Step ==
    (/\ req'.op = "LIST"
     /\ ~Truthy(req'.args.name, "")
     /\ ~Truthy(req'.args.category, <<>>)
     /\ Truthy(req'.args.available, <<>>))
    => LET wanted == Lower(req'.args.available.v) \in TrueTexts
       IN  /\ resp'.status = HTTP_200_OK
           /\ resp'.kind = "array"
           /\ \A i \in DOMAIN db :
                  (db[i].available = wanted) <=> (serialize(db[i]) \in Items(resp'))
           /\ \A x \in Items(resp') : \E i \in DOMAIN db : x = serialize(db[i])
           /\ Len(resp'.items) = Cardinality({i \in DOMAIN db : db[i].available = wanted})

C10_AvailableFilter == [][C10_Step]_vars

\* "Yes" picks the one available product of two
C10_Witness ==
    /\ req.op = "LIST"
    /\ req.args = [NoArgs EXCEPT !.available = Given(<<"Y", "e", "s">>)]
    /\ Cardinality(DOMAIN db) = 2
    /\ Len(resp.items) = 1
    /\ resp.items[1].available = JBool(TRUE)

(***************************************************************************)
(* C9: for every product x and every target, deserializing serialize(x)    *)
(* into the target gives it the name, description, price (as a decimal     *)
(* value), availability and category of x; the category travels as its     *)
(* label text; the id of the payload is not assigned to the target.        *)
(***************************************************************************)
C9_RoundTrip ==
    \A i \in DOMAIN db :
        \A target \in StoredRows(db) \cup {NewProduct} :
            LET x == db[i]
                data == serialize(x)
                r == deserialize(target, data)
            IN  /\ data.id = x.id
                /\ data.category = x.category.name
                /\ r.ok
                /\ r.product.name = x.name
                /\ r.product.description = x.description
                /\ DecimalEq(r.product.price, x.price)
                /\ r.product.available = x.available
                /\ r.product.category = x.category
                /\ r.product.id = target.id

\* the posted serialization of product 1 was stored as product 2; its price
\* has two fractional digits and a value below one
C9_Witness ==
    /\ req.op = "POST"
    /\ resp.status = HTTP_201_CREATED
    /\ DOMAIN db = {1, 2}
    /\ req.body.data = serialize(db[1])
    /\ db[1].price = [coef |-> 5, scale |-> 2]
    /\ db[2] = [db[1] EXCEPT !.id = 2]

(***************************************************************************)
(* C11: a request answered with 400, 404 or 415, and every GET request     *)
(* (/health, /products, /products/{id}), leaves the stored products and    *)
(* all their field values as they were; the store changes only in a POST   *)
(* answered 201, a PUT answered 200 and a DELETE, answered 204, of an id   *)
(* that was stored.                                                        *)
(***************************************************************************)
C11_Step ==
    /\ (\/ resp'.status \in {HTTP_400_BAD_REQUEST, HTTP_404_NOT_FOUND,
                             HTTP_415_UNSUPPORTED_MEDIA_TYPE}
        \/ req'.op \in {"HEALTH", "LIST", "GET"})
       => db' = db
    /\ db' # db
       => \/ req'.op = "POST" /\ resp'.status = HTTP_201_CREATED
          \/ req'.op = "PUT" /\ resp'.status = HTTP_200_OK
          \/ /\ req'.op = "DELETE"
             /\ resp'.status = HTTP_204_NO_CONTENT
             /\ req'.id \in DOMAIN db

C11_Frame == [][C11_Step]_vars

\* a 415 for a PUT that would have changed a stored product
C11_Witness ==
    /\ req.op = "PUT"
    /\ resp.status = HTTP_415_UNSUPPORTED_MEDIA_TYPE
    /\ req.id \in DOMAIN db
    /\ req.body.parses
    /\ ValidPayload(req.body.data)
    /\ ProductOf(req.body.data, req.id) # db[req.id]

====
